---- MODULE Spec2Model ----
(***************************************************************************)
(* Model of card_maker.py: the deck layout loop draw_cards with the main   *)
(* program that opens and finishes the PDF surfaces, and the word-wrapping *)
(* routine multi_line_text.                                                *)
(*                                                                         *)
(* Lengths that the program keeps as floats (PAGE_WIDTH, PAGE_HEIGHT) are  *)
(* kept in hundredths of a point; every other length is in whole points,   *)
(* as in the source.  Card indices i are 0-based, as in the source.        *)
(***************************************************************************)
EXTENDS Integers, Sequences, FiniteSets, TLC

VARIABLES
    \* configuration (set once, lines 17-29)
    PAGE_WIDTH,              \* hundredths of a point
    PAGE_HEIGHT,             \* hundredths of a point
    DOTS,
    SEPARATE_CUTTING_LINES,
    \* main program and draw_cards
    cards,                   \* the deck, a sequence of card records
    pc,                      \* position of the program
    surface,                 \* name of the file of the current surface
    files,                   \* file name -> document written so far
    cutting_lines,           \* argument of draw_cards
    front,
    i,
    \* multi_line_text
    text, max_width, split, index, parts, max_height,
    part, last_part, last_part_bound, ext, lines, fpc

lvars == <<PAGE_WIDTH, PAGE_HEIGHT, DOTS, SEPARATE_CUTTING_LINES, cards, pc,
           surface, files, cutting_lines, front, i>>
fvars == <<text, max_width, split, index, parts, max_height, part, last_part,
           last_part_bound, ext, lines, fpc>>
vars == <<lvars, fvars>>

(***************************************************************************)
(* Bounds of the model.                                                    *)
(***************************************************************************)
MaxCards == 6
MaxLen == 4
MaxWidth == 4

\* page sizes tried, in hundredths of a point; 119055 x 84189 is the A3 page
\* of lines 21-22 (420 * 72 / 25.4 and 297 * 72 / 25.4)
PageWidths == {35000, 60000, 80000, 119055}
PageHeights == {20000, 35000, 84189}

(***************************************************************************)
(* Program constants.                                                      *)
(***************************************************************************)
OUTPUT_FILE == "cards.pdf"
CUTTING_FILE == "cutting_lines.pdf"
WIDTH == 240
HEIGHT == 160
MARGIN == 15
DOT_RADIUS == IF DOTS THEN 8 ELSE 0
NO == 0
YES == 1
\* ONLY of line 34 (a reserved word here)
ONLY_CUTTING == 2

\* Python's round() of a value given in hundredths: nearest integer, ties to
\* the even one
Round(v) ==
    LET q == v \div 100
        r == v % 100
    IN  IF r < 50 THEN q
        ELSE IF r > 50 THEN q + 1
        ELSE IF q % 2 = 0 THEN q ELSE q + 1

CARDS_HORI == Round(PAGE_WIDTH - 100 * (2 * MARGIN) - 100 * (4 * DOT_RADIUS)) \div WIDTH
CARDS_VERTI == Round(PAGE_HEIGHT - 100 * (2 * MARGIN)) \div HEIGHT
CARDS_PER_PAGE == CARDS_HORI * CARDS_VERTI

(***************************************************************************)
(* The documents.  A document is the sequence of pages closed by           *)
(* show_page, and the page being drawn.  A page holds its slots in drawing *)
(* order and the number of alignment dots drawn on it.                     *)
(***************************************************************************)
EmptyPage == [slots |-> <<>>, dots |-> 0]
NewFile == [opened |-> FALSE, finished |-> FALSE, pages |-> <<>>, page |-> EmptyPage]

\* PDFSurface(name, PAGE_WIDTH, PAGE_HEIGHT)
PDFSurface(name) ==
    [files EXCEPT ![name] = [opened |-> TRUE, finished |-> FALSE,
                             pages |-> <<>>, page |-> EmptyPage]]

\* surface.create_for_rectangle(x, y, WIDTH, HEIGHT) with what is painted
\* into it
create_for_rectangle(slot) ==
    [files EXCEPT ![surface].page.slots = Append(@, slot)]

\* painting the face and the number into the slot created last
PaintFace(side, n) ==
    LET k == Len(files[surface].page.slots)
    IN  [files EXCEPT ![surface].page.slots[k].face = side,
                      ![surface].page.slots[k].number = n]

\* dots that are never drawn
black_dotsNone(f) == f

\* the three black_dot calls of lines 152-154
black_dots(f) == [f EXCEPT ![surface].page.dots = @ + 3]

\* surface.show_page()
show_page(f) ==
    [f EXCEPT ![surface].pages = Append(@, f[surface].page),
              ![surface].page = EmptyPage]

(***************************************************************************)
(* draw_cards: positions and page-break tests.                             *)
(***************************************************************************)
\* card_in_row, lines 135 and 165
CardInRow(n) == n % CARDS_HORI

\* a front position that leaves twice the room for the dots
FrontXDoubleGap(n) ==
    LET card_in_row == CardInRow(n)
        x == MARGIN + card_in_row * WIDTH
    IN  IF card_in_row = 1 THEN x + 4 * DOT_RADIUS
        ELSE IF card_in_row > 1 THEN x + 8 * DOT_RADIUS
        ELSE x

\* lines 136-140
FrontX(n) ==
    LET card_in_row == CardInRow(n)
        x == MARGIN + card_in_row * WIDTH
    IN  IF card_in_row = 1 THEN x + 2 * DOT_RADIUS
        ELSE IF card_in_row > 1 THEN x + 4 * DOT_RADIUS
        ELSE x

\* a back position that forgets the card's own width
BackXNoOwnWidth(n) ==
    LET card_in_row == CardInRow(n)
        x == Round(PAGE_WIDTH - 100 * MARGIN - 100 * (card_in_row * WIDTH))
    IN  IF card_in_row = 1 THEN x - 2 * DOT_RADIUS
        ELSE IF card_in_row > 1 THEN x - 4 * DOT_RADIUS
        ELSE x

\* lines 166-170
BackX(n) ==
    LET card_in_row == CardInRow(n)
        x == Round(PAGE_WIDTH - 100 * MARGIN - 100 * ((card_in_row + 1) * WIDTH))
    IN  IF card_in_row = 1 THEN x - 2 * DOT_RADIUS
        ELSE IF card_in_row > 1 THEN x - 4 * DOT_RADIUS
        ELSE x

\* a row that is not wrapped at the end of the page
SlotYNoWrap(n) == MARGIN + (n \div CARDS_HORI) * HEIGHT

\* lines 141 and 171
SlotY(n) == MARGIN + ((n \div CARDS_HORI) % CARDS_VERTI) * HEIGHT

\* (i + 1) % CARDS_PER_PAGE == 0
PageFull(n) == (n + 1) % CARDS_PER_PAGE = 0

\* a final-page test that never fires
LastCardNever(n) == FALSE

\* i == len(cards) - 1
LastCard(n) == n = Len(cards) - 1

\* a loop test that admits i == len(cards)
LoopConditionInclusive(n) == n <= Len(cards)

\* while i < len(cards)
LoopCondition(n) == n < Len(cards)

\* a rewind of a full page that goes one card too far
RewindFullOneMore(n) == n - CARDS_PER_PAGE

\* line 159
RewindFull(n) == n - (CARDS_PER_PAGE - 1)

\* a final page that is not rewound
RewindPartialNone(n) == n

\* line 162
RewindPartial(n) == n - (n % CARDS_PER_PAGE)

\* faces drawn in every mode
DrawsFacesAlways(mode) == TRUE

\* if cutting_lines != ONLY, lines 146 and 156
DrawsFaces(mode) == mode # ONLY_CUTTING

\* if cutting_lines, lines 144 and 174
DrawsOutline(mode) == mode # 0

(***************************************************************************)
(* Initial state: the deck is loaded (lines 184-188), nothing is opened.   *)
(***************************************************************************)
Card == [level |-> 1]
Decks == UNION {[1..n -> {Card}] : n \in 0..MaxCards}

FitIdle ==
    /\ text = <<>> /\ max_width = 0 /\ split = <<>> /\ index = 0
    /\ parts = <<>> /\ max_height = 0 /\ part = <<>> /\ last_part = <<>>
    /\ last_part_bound = FALSE /\ ext = [width |-> 0, height |-> 0]
    /\ lines = <<>> /\ fpc = "idle"

Init ==
    /\ PAGE_WIDTH \in PageWidths
    /\ PAGE_HEIGHT \in PageHeights
    /\ DOTS \in BOOLEAN
    /\ SEPARATE_CUTTING_LINES \in BOOLEAN
    /\ cards \in Decks
    /\ pc = "main"
    /\ surface = "none"
    /\ files = [f \in {OUTPUT_FILE, CUTTING_FILE} |-> NewFile]
    /\ cutting_lines = NO
    /\ front = TRUE
    /\ i = 0
    /\ FitIdle

cfgvars == <<PAGE_WIDTH, PAGE_HEIGHT, DOTS, SEPARATE_CUTTING_LINES, cards>>

(***************************************************************************)
(* Main program, lines 190-199.                                            *)
(***************************************************************************)
\* lines 191-192 and 130-131: open the output file and enter draw_cards
OpenOutput ==
    /\ pc = "main"
    /\ surface' = OUTPUT_FILE
    /\ files' = PDFSurface(OUTPUT_FILE)
    /\ cutting_lines' = IF SEPARATE_CUTTING_LINES THEN NO ELSE YES
    /\ front' = TRUE
    /\ i' = 0
    /\ pc' = "loop"
    /\ UNCHANGED <<cfgvars, fvars>>

\* lines 193 and 199: draw_cards has returned, surface.finish()
Finish ==
    /\ pc = "return"
    /\ files' = [files EXCEPT ![surface].finished = TRUE]
    /\ pc' = IF surface = OUTPUT_FILE /\ SEPARATE_CUTTING_LINES
             THEN "cutting" ELSE "exit"
    /\ UNCHANGED <<cfgvars, surface, cutting_lines, front, i, fvars>>

\* a cutting file drawn like the output file
OpenCuttingAsCards ==
    /\ pc = "cutting"
    /\ surface' = CUTTING_FILE
    /\ files' = PDFSurface(CUTTING_FILE)
    /\ cutting_lines' = YES
    /\ front' = TRUE
    /\ i' = 0
    /\ pc' = "loop"
    /\ UNCHANGED <<cfgvars, fvars>>

\* lines 195-198 and 130-131: open the cutting file and enter draw_cards
OpenCutting ==
    /\ pc = "cutting"
    /\ surface' = CUTTING_FILE
    /\ files' = PDFSurface(CUTTING_FILE)
    /\ cutting_lines' = ONLY_CUTTING
    /\ front' = TRUE
    /\ i' = 0
    /\ pc' = "loop"
    /\ UNCHANGED <<cfgvars, fvars>>

(***************************************************************************)
(* draw_cards, lines 129-181.                                              *)
(***************************************************************************)
\* line 132 (and the test of line 133 on entering the body)
LoopTest ==
    /\ pc = "loop"
    /\ pc' = IF LoopCondition(i)
             THEN (IF front THEN "front_slot" ELSE "back_slot")
             ELSE "return"
    /\ UNCHANGED <<cfgvars, surface, files, cutting_lines, front, i, fvars>>

\* lines 134-145: position of the front slot, sub-surface, cutting line
FrontSlot ==
    /\ pc = "front_slot"
    /\ files' = create_for_rectangle(
                   [i |-> i, side |-> "front", card_in_row |-> CardInRow(i),
                    x |-> FrontX(i), y |-> SlotY(i),
                    outline |-> DrawsOutline(cutting_lines),
                    face |-> "none", number |-> 0])
    /\ pc' = "front_face"
    /\ UNCHANGED <<cfgvars, surface, cutting_lines, front, i, fvars>>

\* lines 146-148: make_front and number, unless only cutting lines are drawn
FrontFace ==
    /\ pc = "front_face"
    /\ files' = IF DrawsFaces(cutting_lines)
                THEN PaintFace("front", i + 1) ELSE files
    /\ pc' = "front_break"
    /\ UNCHANGED <<cfgvars, surface, cutting_lines, front, i, fvars>>

\* lines 149-155: page full or final page: dots and show_page
FrontPageBreak ==
    /\ pc = "front_break"
    /\ files' = IF PageFull(i) \/ LastCard(i)
                THEN show_page(IF DOTS THEN black_dots(files) ELSE files)
                ELSE files
    /\ pc' = "front_turn"
    /\ UNCHANGED <<cfgvars, surface, cutting_lines, front, i, fvars>>

\* lines 156-163: switch to the backs and rewind to the start of the page
FrontTurn ==
    /\ pc = "front_turn"
    /\ IF DrawsFaces(cutting_lines) /\ PageFull(i)
       THEN front' = FALSE /\ i' = RewindFull(i)
       ELSE IF DrawsFaces(cutting_lines) /\ LastCard(i)
       THEN front' = FALSE /\ i' = RewindPartial(i)
       ELSE UNCHANGED <<front, i>>
    /\ pc' = IF ~front' THEN "back_slot" ELSE "incr"
    /\ UNCHANGED <<cfgvars, surface, files, cutting_lines, fvars>>

\* lines 164-175: position of the back slot, sub-surface, cutting line
BackSlot ==
    /\ pc = "back_slot"
    /\ files' = create_for_rectangle(
                   [i |-> i, side |-> "back", card_in_row |-> CardInRow(i),
                    x |-> BackX(i), y |-> SlotY(i),
                    outline |-> DrawsOutline(cutting_lines),
                    face |-> "none", number |-> 0])
    /\ pc' = "back_face"
    /\ UNCHANGED <<cfgvars, surface, cutting_lines, front, i, fvars>>

\* lines 176-177: make_back and number
BackFace ==
    /\ pc = "back_face"
    /\ files' = PaintFace("back", i + 1)
    /\ pc' = "back_break"
    /\ UNCHANGED <<cfgvars, surface, cutting_lines, front, i, fvars>>

\* a back page break that stays with the backs
BackPageBreakNoFlip ==
    /\ pc = "back_break"
    /\ IF PageFull(i)
       THEN files' = show_page(files) /\ front' = front
       ELSE UNCHANGED <<files, front>>
    /\ pc' = "incr"
    /\ UNCHANGED <<cfgvars, surface, cutting_lines, i, fvars>>

\* a back page break that also fires on the last card of the deck
BackPageBreakAlsoLast ==
    /\ pc = "back_break"
    /\ IF PageFull(i) \/ LastCard(i)
       THEN files' = show_page(files) /\ front' = TRUE
       ELSE UNCHANGED <<files, front>>
    /\ pc' = "incr"
    /\ UNCHANGED <<cfgvars, surface, cutting_lines, i, fvars>>

\* lines 178-180: page full: show_page and back to the fronts
BackPageBreak ==
    /\ pc = "back_break"
    /\ IF PageFull(i)
       THEN files' = show_page(files) /\ front' = TRUE
       ELSE UNCHANGED <<files, front>>
    /\ pc' = "incr"
    /\ UNCHANGED <<cfgvars, surface, cutting_lines, i, fvars>>

\* line 181
Increment ==
    /\ pc = "incr"
    /\ i' = i + 1
    /\ pc' = "loop"
    /\ UNCHANGED <<cfgvars, surface, files, cutting_lines, front, fvars>>

\* make_front / make_back / number raise (an exception of the renderer, or of
\* multi_line_text at line 62): nothing catches it, the program ends
RenderFails ==
    /\ \/ pc = "front_face" /\ DrawsFaces(cutting_lines)
       \/ pc = "back_face"
    /\ pc' = "aborted"
    /\ UNCHANGED <<cfgvars, surface, files, cutting_lines, front, i, fvars>>

Next ==
    \/ OpenOutput
    \/ LoopTest
    \/ FrontSlot
    \/ FrontFace
    \/ FrontPageBreak
    \/ FrontTurn
    \/ BackSlot
    \/ BackFace
    \/ BackPageBreak
    \/ Increment
    \/ Finish
    \/ OpenCutting
    \/ RenderFails

Spec == Init /\ [][Next]_vars

\* the program is a single thread that runs until it ends or raises: a step
\* that can be taken is taken
SpecFair == Spec /\ WF_vars(Next)

(***************************************************************************)
(* multi_line_text, lines 46-64.  A text is a sequence of characters.      *)
(***************************************************************************)
Chars == {"a", "b", "g", " "}
Texts == UNION {[1..n -> Chars] : n \in 0..MaxLen}

\* the longest list of parts the model follows; a text of MaxLen characters
\* has at most MaxLen + 1 words
MaxParts == MaxLen + 3

\* text.split(' '): the words between single spaces, empty words included
RECURSIVE Split(_)
Split(t) ==
    IF t = <<>> THEN << <<>> >>
    ELSE LET s == Split(SubSeq(t, 1, Len(t) - 1))
             c == t[Len(t)]
         IN  IF c = " " THEN Append(s, <<>>)
             ELSE [s EXCEPT ![Len(s)] = Append(@, c)]

\* ctx.text_extents(text) for a fixed font: a deterministic measurer.  The
\* width is the sum of the widths of the characters ("b" is 2 wide, every
\* other character 1).  The height is that of the box around the ink: the
\* highest rise above the baseline ("a", "g": 1, "b": 2) plus the deepest
\* descent below it ("g": 1); a space has no ink.
CharWidth(c) == IF c = "b" THEN 2 ELSE 1
CharAscent(c) == IF c = "b" THEN 2 ELSE IF c \in {"a", "g"} THEN 1 ELSE 0
CharDescent(c) == IF c = "g" THEN 1 ELSE 0

RECURSIVE SumWidth(_)
SumWidth(t) == IF t = <<>> THEN 0 ELSE CharWidth(Head(t)) + SumWidth(Tail(t))

RECURSIVE MaxAscent(_)
MaxAscent(t) ==
    IF t = <<>> THEN 0
    ELSE LET h == MaxAscent(Tail(t))
         IN  IF CharAscent(Head(t)) > h THEN CharAscent(Head(t)) ELSE h

RECURSIVE MaxDescent(_)
MaxDescent(t) ==
    IF t = <<>> THEN 0
    ELSE LET h == MaxDescent(Tail(t))
         IN  IF CharDescent(Head(t)) > h THEN CharDescent(Head(t)) ELSE h

text_extents(t) ==
    [width |-> SumWidth(t), height |-> MaxAscent(t) + MaxDescent(t)]

\* a width test that lets one more point through
FitsLoose(e) == e.width <= max_width + 1

\* a width test that rejects an exact fit
FitsStrict(e) == e.width < max_width

\* ext.width <= max_width, line 54
Fits(e) == e.width <= max_width

\* part += ' ' + split[index], line 59
AddWord(p, w) == p \o <<" ">> \o w

\* max(ext.height, max_height), line 61
NewMaxHeight(e, h) == IF e.height > h THEN e.height ELSE h

\* lines 63-64: line k of the parts with twice its vertical offset from y,
\* 2 * (i - len(parts) / 2 + 0.5) * max_height
Stack(ps, h) ==
    [k \in 1..Len(ps) |->
        [text |-> ps[k], offset2 |-> (2 * (k - 1) - Len(ps) + 1) * h]]

InitFit ==
    /\ PAGE_WIDTH = 119055
    /\ PAGE_HEIGHT = 84189
    /\ DOTS = TRUE
    /\ SEPARATE_CUTTING_LINES = TRUE
    /\ cards = <<>>
    /\ pc = "fit"
    /\ surface = "none"
    /\ files = [f \in {OUTPUT_FILE, CUTTING_FILE} |-> NewFile]
    /\ cutting_lines = NO
    /\ front = TRUE
    /\ i = 0
    /\ text \in Texts
    /\ max_width \in 0..MaxWidth
    /\ split = <<>> /\ index = 0 /\ parts = <<>> /\ max_height = 0
    /\ part = <<>> /\ last_part = <<>> /\ last_part_bound = FALSE
    /\ ext = [width |-> 0, height |-> 0]
    /\ lines = <<>>
    /\ fpc = "call"

\* lines 47-50
FitStart ==
    /\ fpc = "call"
    /\ split' = Split(text)
    /\ index' = 0
    /\ parts' = <<>>
    /\ max_height' = 0
    /\ fpc' = "outer"
    /\ UNCHANGED <<lvars, text, max_width, part, last_part, last_part_bound,
                   ext, lines>>

\* lines 51-53: the first word of the next part and its size
OuterLoop ==
    /\ fpc = "outer"
    /\ IF index < Len(split)
       THEN /\ part' = split[index + 1]
            /\ ext' = text_extents(part')
            /\ fpc' = "inner"
       ELSE /\ fpc' = "draw"
            /\ UNCHANGED <<part, ext>>
    /\ UNCHANGED <<lvars, text, max_width, split, index, parts, max_height,
                   last_part, last_part_bound, lines>>

\* lines 54-60: one pass of the inner loop, or its exit
InnerLoop ==
    /\ fpc = "inner"
    /\ IF Fits(ext)
       THEN /\ last_part' = part
            /\ last_part_bound' = TRUE
            /\ index' = index + 1
            /\ IF index' = Len(split)
               THEN /\ fpc' = "commit"
                    /\ UNCHANGED <<part, ext>>
               ELSE /\ part' = AddWord(part, split[index' + 1])
                    /\ ext' = text_extents(part')
                    /\ fpc' = "inner"
       ELSE /\ fpc' = "commit"
            /\ UNCHANGED <<last_part, last_part_bound, index, part, ext>>
    /\ UNCHANGED <<lvars, text, max_width, split, parts, max_height, lines>>

\* lines 61-62: last_part is read; it is unbound when the inner loop has
\* never run in this call (UnboundLocalError)
Commit ==
    /\ fpc = "commit"
    /\ Len(parts) < MaxParts
    /\ max_height' = NewMaxHeight(ext, max_height)
    /\ IF last_part_bound
       THEN parts' = Append(parts, last_part) /\ fpc' = "outer"
       ELSE parts' = parts /\ fpc' = "error"
    /\ UNCHANGED <<lvars, text, max_width, split, index, part, last_part,
                   last_part_bound, ext, lines>>

\* lines 63-64
Draw ==
    /\ fpc = "draw"
    /\ lines' = Stack(parts, max_height)
    /\ fpc' = "done"
    /\ UNCHANGED <<lvars, text, max_width, split, index, parts, max_height,
                   part, last_part, last_part_bound, ext>>

NextFit ==
    \/ FitStart
    \/ OuterLoop
    \/ InnerLoop
    \/ Commit
    \/ Draw

SpecFit == InitFit /\ [][NextFit]_vars

(***************************************************************************)
(* Properties of draw_cards and of the main program (under Spec).          *)
(***************************************************************************)
\* the pages of a document in order: the pages closed by show_page, then the
\* page that holds slots and is still open
AllPages(f) ==
    files[f].pages \o
        (IF files[f].page.slots # <<>> THEN <<files[f].page>> ELSE <<>>)

RECURSIVE SlotsOf(_)
SlotsOf(pgs) == IF pgs = <<>> THEN <<>> ELSE Head(pgs).slots \o SlotsOf(Tail(pgs))

\* the placement stream of a document
Placements(f) == SlotsOf(AllPages(f))

\* draw_cards has returned for the document
Returned(f) == files[f].finished \/ (pc = "return" /\ surface = f)

Sides == {"front", "back"}

CountPlaced(f, n, sd) ==
    LET s == Placements(f)
    IN  Cardinality({k \in 1..Len(s) : s[k].i = n /\ s[k].side = sd})

CeilDiv(a, b) == (a + b - 1) \div b

\* the card indices of page-block b
Block(b) == {n \in 0..(Len(cards) - 1) : n \div CARDS_PER_PAGE = b}

PageIndices(p) == {p.slots[k].i : k \in 1..Len(p.slots)}

\* C1: in the card-drawing run (cutting_lines NO or YES) only indices
\* 0..N-1 are placed, none twice on the same side, and when draw_cards has
\* returned there are exactly 2N placements, every index once as a painted
\* front face and once as a painted back face.
C1_EachCardOnceFrontOnceBack ==
    LET s == Placements(OUTPUT_FILE)
    IN  /\ \A k \in 1..Len(s) : s[k].i \in 0..(Len(cards) - 1)
        /\ \A n \in 0..(Len(cards) - 1) : \A sd \in Sides :
              CountPlaced(OUTPUT_FILE, n, sd) <= 1
        /\ Returned(OUTPUT_FILE) =>
              /\ Len(s) = 2 * Len(cards)
              /\ \A n \in 0..(Len(cards) - 1) : \A sd \in Sides :
                    CountPlaced(OUTPUT_FILE, n, sd) = 1
              /\ \A k \in 1..Len(s) :
                    s[k].face = s[k].side /\ s[k].number = s[k].i + 1

C1_Witness ==
    /\ files[OUTPUT_FILE].finished
    /\ Len(cards) = 5
    /\ CARDS_PER_PAGE = 2
    /\ Len(Placements(OUTPUT_FILE)) = 10

\* C2: for an integer PAGE_WIDTH, the back slot of a card has the row and
\* the column of its front slot (same y), and its x is the mirror image of
\* the front x: x_back = PAGE_WIDTH - x_front - WIDTH.
C2_BackMirrorsFront ==
    LET s == Placements(OUTPUT_FILE)
    IN  PAGE_WIDTH % 100 = 0 =>
          \A a \in 1..Len(s) : \A b \in 1..Len(s) :
             (s[a].side = "front" /\ s[b].side = "back" /\ s[a].i = s[b].i) =>
                /\ s[b].y = s[a].y
                /\ (s[b].y - MARGIN) \div HEIGHT = (s[a].y - MARGIN) \div HEIGHT
                /\ s[b].card_in_row = s[a].card_in_row
                /\ 100 * s[b].x = PAGE_WIDTH - 100 * s[a].x - 100 * WIDTH

C2_Witness ==
    LET s == Placements(OUTPUT_FILE)
    IN  /\ PAGE_WIDTH % 100 = 0
        /\ DOTS
        /\ \E a \in 1..Len(s) : \E b \in 1..Len(s) :
              /\ s[a].side = "front" /\ s[b].side = "back" /\ s[a].i = s[b].i
              /\ s[a].card_in_row = 2
              /\ s[a].y > MARGIN

\* C3: when draw_cards has returned for a deck of N > 0 cards, the
\* placements of the card-drawing run lie on exactly 2 * ceil(N / P) pages.
C3_TwoPagesPerBlock ==
    (Returned(OUTPUT_FILE) /\ Len(cards) > 0) =>
        Len(AllPages(OUTPUT_FILE)) = 2 * CeilDiv(Len(cards), CARDS_PER_PAGE)

C3_Witness ==
    /\ files[OUTPUT_FILE].finished
    /\ Len(cards) = 5
    /\ CARDS_PER_PAGE = 3
    /\ Len(AllPages(OUTPUT_FILE)) = 4

\* C4: the pages of the card-drawing run alternate front, back, front, ...:
\* page 2b+1 holds only fronts and page 2b+2 only backs, both hold only cards
\* of block b, and a page that is followed by another page (or that is there
\* when draw_cards returns) holds exactly the cards of block b.
C4_PagesAlternate ==
    LET pg == AllPages(OUTPUT_FILE)
    IN  \A k \in 1..Len(pg) :
          /\ \A j \in 1..Len(pg[k].slots) :
                pg[k].slots[j].side = (IF k % 2 = 1 THEN "front" ELSE "back")
          /\ PageIndices(pg[k]) \subseteq Block((k - 1) \div 2)
          /\ (k < Len(pg) \/ Returned(OUTPUT_FILE)) =>
                PageIndices(pg[k]) = Block((k - 1) \div 2)

C4_Witness ==
    LET pg == AllPages(OUTPUT_FILE)
    IN  /\ Len(cards) = 5
        /\ CARDS_PER_PAGE = 2
        /\ Len(pg) = 5
        /\ PageIndices(pg[4]) = {2, 3}
        /\ PageIndices(pg[5]) = {4}
        /\ pc = "front_face"

\* C8: with an empty deck the loop body is never entered, no slot is placed
\* and no page is closed in any document, the program never aborts, it can
\* always take its next step until it has ended, and when it has ended every
\* document it opened is finished.
C8_EmptyDeckFinishes ==
    Len(cards) = 0 =>
        /\ pc \in {"main", "loop", "return", "cutting", "exit"}
        /\ \A f \in DOMAIN files :
              files[f].pages = <<>> /\ files[f].page = EmptyPage
        /\ pc # "exit" => ENABLED Next
        /\ pc = "exit" =>
              /\ files[OUTPUT_FILE].opened /\ files[OUTPUT_FILE].finished
              /\ SEPARATE_CUTTING_LINES =>
                    files[CUTTING_FILE].opened /\ files[CUTTING_FILE].finished

C8_Witness ==
    /\ Len(cards) = 0
    /\ pc = "exit"
    /\ files[OUTPUT_FILE].finished
    /\ files[CUTTING_FILE].finished
    /\ AllPages(OUTPUT_FILE) = <<>>

\* C9: in the cutting-guide run (cutting_lines ONLY) the program is never in
\* the back branch, and every slot of the cutting document holds the cutting
\* outline and nothing else: no face, no number.
C9_CuttingRunDrawsNoFace ==
    /\ cutting_lines = ONLY_CUTTING =>
          (front /\ pc \notin {"back_slot", "back_face", "back_break"})
    /\ LET s == Placements(CUTTING_FILE)
       IN  \A k \in 1..Len(s) :
              s[k].outline /\ s[k].face = "none" /\ s[k].number = 0

C9_Witness ==
    /\ files[CUTTING_FILE].finished
    /\ Len(cards) = 3
    /\ CARDS_PER_PAGE = 2
    /\ Len(Placements(CUTTING_FILE)) = 3

\* C10: whenever the program has ended, by reaching its end or by an
\* exception, every document it opened has been finished.
C10_FinishedOnEveryExit ==
    pc \in {"exit", "aborted"} =>
        \A f \in DOMAIN files : files[f].opened => files[f].finished

(***************************************************************************)
(* Properties of multi_line_text (under SpecFit).                          *)
(***************************************************************************)
NoSpace(t) == \A k \in 1..Len(t) : t[k] # " "

\* the words of a list of lines, in order
RECURSIVE WordsOf(_)
WordsOf(ps) == IF ps = <<>> THEN <<>> ELSE Split(Head(ps)) \o WordsOf(Tail(ps))

\* a word of the text is wider than max_width
HasWideWord ==
    \E k \in 1..Len(Split(text)) : text_extents(Split(text)[k]).width > max_width

\* C5: for a text without a space the call never fails, and when it has
\* ended it has produced the one line that is the whole text, for every
\* max_width.
C5_OneWordOneLine ==
    NoSpace(text) =>
        /\ fpc # "error"
        /\ fpc = "done" => parts = <<text>>

\* C6: the call never fails, and the lines produced so far are, word for
\* word, the words consumed so far: at the end, all the words of the text.
C6_WordsPreserved ==
    /\ fpc # "error"
    /\ fpc \in {"outer", "draw", "done"} =>
          WordsOf(parts) = SubSeq(split, 1, index)
    /\ fpc = "done" => WordsOf(parts) = Split(text)

\* C7: with a word wider than max_width in a text of several words the call
\* does not fail, and there are never more lines than words consumed (every
\* line holds at least one word).
C7_WideWordOwnLine ==
    (HasWideWord /\ Len(Split(text)) > 1) =>
        /\ fpc # "error"
        /\ Len(parts) <= index


(***************************************************************************)
(* Further properties of draw_cards (under Spec).                          *)
(***************************************************************************)
\* C11 as claimed: after the back sub-pass has placed the last card of the
\* deck, the back page has been closed by show_page and front is true again,
\* whether the page is full or not.
C11_LastBackPageFlushed ==
    (pc = "incr" /\ surface = OUTPUT_FILE /\ LastCard(i)) =>
        (front /\ files[OUTPUT_FILE].page = EmptyPage)

\* C11 as amended: after the back sub-pass has placed the last card of the
\* deck, the back page has been closed and front is true only if the page is
\* full; on a page that is not full the page stays open with its back slots
\* and front stays false, so that draw_cards returns after
\* 2 * ceil(N / P) - 1 calls of show_page.
C11_LastBackPageFlushedOnlyIfFull ==
    /\ (pc = "incr" /\ surface = OUTPUT_FILE /\ LastCard(i)) =>
          IF PageFull(i)
          THEN front /\ files[OUTPUT_FILE].page = EmptyPage
          ELSE /\ ~front
               /\ files[OUTPUT_FILE].page.slots # <<>>
               /\ \A k \in 1..Len(files[OUTPUT_FILE].page.slots) :
                     files[OUTPUT_FILE].page.slots[k].side = "back"
    /\ (Returned(OUTPUT_FILE) /\ Len(cards) > 0) =>
          Len(files[OUTPUT_FILE].pages) =
             2 * CeilDiv(Len(cards), CARDS_PER_PAGE)
               - (IF Len(cards) % CARDS_PER_PAGE = 0 THEN 0 ELSE 1)

C11_Witness ==
    /\ pc = "incr"
    /\ surface = OUTPUT_FILE
    /\ LastCard(i)
    /\ ~PageFull(i)
    /\ ~front
    /\ Len(cards) = 5
    /\ CARDS_PER_PAGE = 3
    /\ Len(files[OUTPUT_FILE].page.slots) = 2

\* C12: every front slot (of either document) is at the row-major position
\* of the card's index within its block, j = i mod CARDS_PER_PAGE: row
\* j div CARDS_HORI, column j mod CARDS_HORI; the first card of every block
\* is at the top left corner (MARGIN, MARGIN).
C12_FrontRowMajorInBlock ==
    \A f \in DOMAIN files :
       LET s == Placements(f)
       IN  \A k \in 1..Len(s) :
              s[k].side = "front" =>
                 LET j == s[k].i % CARDS_PER_PAGE
                 IN  /\ s[k].card_in_row = j % CARDS_HORI
                     /\ s[k].y = MARGIN + (j \div CARDS_HORI) * HEIGHT
                     /\ s[k].x = MARGIN + (j % CARDS_HORI) * WIDTH
                                 + (IF j % CARDS_HORI = 0 THEN 0
                                    ELSE IF j % CARDS_HORI = 1 THEN 2 * DOT_RADIUS
                                    ELSE 4 * DOT_RADIUS)
                     /\ j = 0 => (s[k].x = MARGIN /\ s[k].y = MARGIN)

C12_Witness ==
    LET s == Placements(OUTPUT_FILE)
    IN  /\ CARDS_HORI = 2
        /\ CARDS_VERTI = 2
        /\ \E k \in 1..Len(s) :
              /\ s[k].side = "front" /\ s[k].i = 4
              /\ s[k].x = MARGIN /\ s[k].y = MARGIN
        /\ \E k \in 1..Len(s) :
              /\ s[k].side = "front" /\ s[k].i = 3
              /\ s[k].y = MARGIN + HEIGHT


(***************************************************************************)
(* Further properties of multi_line_text (under SpecFit).                  *)
(***************************************************************************)
\* the first word of a line
FirstWord(line) == Head(Split(line))

RECURSIVE MaxLineHeight(_)
MaxLineHeight(ps) ==
    IF ps = <<>> THEN 0
    ELSE LET h == MaxLineHeight(Tail(ps))
             e == text_extents(Head(ps)).height
         IN  IF e > h THEN e ELSE h

\* C13: every line in parts is at most max_width wide, unless it is a single
\* word that is itself wider than max_width.
C13_LinesFit ==
    \A k \in 1..Len(parts) :
       \/ text_extents(parts[k]).width <= max_width
       \/ NoSpace(parts[k])

C13_Witness ==
    /\ fpc = "done"
    /\ Len(parts) = 2
    /\ Len(Split(parts[1])) = 2
    /\ text_extents(parts[1]).width = max_width
    /\ Len(text) = MaxLen

\* C14: in the lines handed to the drawing loop, every line but the last,
\* extended by a space and the first word of the next line, is wider than
\* max_width.
C14_GreedyWrap ==
    fpc \in {"draw", "done"} =>
        \A k \in 1..(Len(parts) - 1) :
           text_extents(AddWord(parts[k], FirstWord(parts[k + 1]))).width
              > max_width

C14_Witness ==
    /\ fpc = "done"
    /\ Len(parts) = 2
    /\ Len(Split(parts[1])) = 2
    /\ text_extents(parts[1]).width = max_width
    /\ parts[2] # <<>>

\* C15: when the lines are stacked, max_height is the largest measured
\* height of the lines in parts.
C15_HeightOfCommittedLines ==
    fpc \in {"draw", "done"} => max_height = MaxLineHeight(parts)

\* C19: every pass of the outer loop that reaches its commit with a line to
\* commit has advanced index by at least one word, so index exceeds the
\* number of lines committed before.
C19_OuterLoopAdvances ==
    (fpc = "commit" /\ last_part_bound) => index > Len(parts)


(***************************************************************************)
(* Alignment dots, the cutting-guide run, termination and geometry of      *)
(* draw_cards (under Spec; termination under SpecFair).                    *)
(***************************************************************************)
\* a page that holds front slots
FrontPage(p) == p.slots # <<>> /\ p.slots[1].side = "front"

\* C16 as claimed: with DOTS, every page closed by show_page, front or back,
\* holds the set of three alignment dots exactly once.
C16_DotsOnEveryPage ==
    DOTS =>
       \A f \in DOMAIN files : \A k \in 1..Len(files[f].pages) :
          files[f].pages[k].dots = 3

\* C16 as amended: with DOTS, every closed page of front slots (every page of
\* the cutting-guide run included) holds the set of three dots exactly once,
\* a page of back slots holds no dot, and the dots are drawn just before
\* show_page, so the open page holds none; without DOTS no dot is drawn.
C16_DotsOnFrontPagesOnly ==
    \A f \in DOMAIN files :
       /\ files[f].page.dots = 0
       /\ \A k \in 1..Len(files[f].pages) :
             files[f].pages[k].dots =
                (IF DOTS /\ FrontPage(files[f].pages[k]) THEN 3 ELSE 0)

C16_Witness ==
    /\ DOTS
    /\ Len(files[OUTPUT_FILE].pages) = 4
    /\ files[OUTPUT_FILE].pages[3].dots = 3
    /\ files[OUTPUT_FILE].pages[4].dots = 0
    /\ Len(files[CUTTING_FILE].pages) = 2
    /\ files[CUTTING_FILE].pages[2].dots = 3

\* index and position of the slots of a page
Positions(p) ==
    [k \in 1..Len(p.slots) |->
        [i |-> p.slots[k].i, x |-> p.slots[k].x, y |-> p.slots[k].y]]

IsPrefix(a, b) == Len(a) <= Len(b) /\ a = SubSeq(b, 1, Len(a))

\* C17: in the cutting-guide run front stays true; every slot is a front
\* slot with the outline; page k of the cutting document holds, in order, the
\* cards and positions of the k-th front page of the card-drawing run (page
\* 2k-1 of the output document); and when draw_cards has returned there are
\* exactly N outlines on ceil(N / P) pages, card i on page i div P.
C17_CuttingMatchesFronts ==
    LET cut == AllPages(CUTTING_FILE)
        out == AllPages(OUTPUT_FILE)
    IN  /\ cutting_lines = ONLY_CUTTING => front
        /\ \A k \in 1..Len(cut) :
              /\ 2 * k - 1 <= Len(out)
              /\ IsPrefix(Positions(cut[k]), Positions(out[2 * k - 1]))
              /\ \A j \in 1..Len(cut[k].slots) :
                    /\ cut[k].slots[j].side = "front"
                    /\ cut[k].slots[j].outline
                    /\ cut[k].slots[j].i \div CARDS_PER_PAGE = k - 1
        /\ Returned(CUTTING_FILE) =>
              /\ Len(Placements(CUTTING_FILE)) = Len(cards)
              /\ Len(cut) = CeilDiv(Len(cards), CARDS_PER_PAGE)
              /\ \A k \in 1..Len(cut) :
                    Positions(cut[k]) = Positions(out[2 * k - 1])

C17_Witness ==
    /\ files[CUTTING_FILE].finished
    /\ Len(cards) = 5
    /\ CARDS_PER_PAGE = 2
    /\ DOTS
    /\ Len(AllPages(CUTTING_FILE)) = 3
    /\ Len(AllPages(OUTPUT_FILE)) = 6

\* the first index of the block of card n
BlockStart(n) == n - (n % CARDS_PER_PAGE)

Min(a, b) == IF a < b THEN a ELSE b

\* the number of slots placed when the loop test is reached with i = n
PlacedAtLoopTest(n) ==
    IF cutting_lines = ONLY_CUTTING THEN n
    ELSE IF front THEN n + BlockStart(n)
    ELSE Min(BlockStart(n) + CARDS_PER_PAGE, Len(cards)) + n

\* C18: every call of draw_cards that reaches its loop test returns (or is
\* ended by an exception of the renderer); at the loop test 0 <= i <= N and
\* the slots placed so far are counted by i and front, so that each pass adds
\* a slot towards the 2N (N in the cutting-guide run) that are placed in all.
C18_DrawCardsTerminates ==
    /\ (pc = "loop") ~> (pc \in {"return", "aborted"})
    /\ [](pc = "loop" =>
            /\ i \in 0..Len(cards)
            /\ Len(Placements(surface)) = PlacedAtLoopTest(i)
            /\ Len(Placements(surface)) <= 2 * Len(cards))

C18_Witness ==
    /\ pc = "return"
    /\ surface = OUTPUT_FILE
    /\ i = Len(cards)
    /\ Len(cards) = 5
    /\ CARDS_PER_PAGE = 2
    /\ ~front
    /\ Len(files[OUTPUT_FILE].pages) = 5

\* two slots share a point of the page
Overlap(a, b) ==
    /\ a.x < b.x + WIDTH /\ b.x < a.x + WIDTH
    /\ a.y < b.y + HEIGHT /\ b.y < a.y + HEIGHT

\* C20: every slot, front or back, lies inside the margins (horizontally for
\* an integer PAGE_WIDTH, vertically for an integer PAGE_HEIGHT), and two
\* slots of the same page never overlap, with and without dots.
C20_SlotsInsideMarginsDisjoint ==
    \A f \in DOMAIN files :
       LET pg == AllPages(f)
       IN  \A k \in 1..Len(pg) :
              /\ \A j \in 1..Len(pg[k].slots) :
                    LET s == pg[k].slots[j]
                    IN  /\ PAGE_WIDTH % 100 = 0 =>
                              /\ MARGIN <= s.x
                              /\ 100 * (s.x + WIDTH) <= PAGE_WIDTH - 100 * MARGIN
                        /\ PAGE_HEIGHT % 100 = 0 =>
                              /\ MARGIN <= s.y
                              /\ 100 * (s.y + HEIGHT) <= PAGE_HEIGHT - 100 * MARGIN
              /\ \A j1 \in 1..Len(pg[k].slots) : \A j2 \in 1..Len(pg[k].slots) :
                    j1 # j2 => ~Overlap(pg[k].slots[j1], pg[k].slots[j2])

C20_Witness ==
    LET pg == AllPages(OUTPUT_FILE)
    IN  /\ PAGE_WIDTH = 80000
        /\ PAGE_HEIGHT = 35000
        /\ DOTS
        /\ Len(pg) = 2
        /\ Len(pg[1].slots) = 6
        /\ Len(pg[2].slots) = 6
        /\ pg[1].slots[6].x = MARGIN + 2 * WIDTH + 4 * DOT_RADIUS
        /\ pg[2].slots[6].x = 800 - MARGIN - 3 * WIDTH - 4 * DOT_RADIUS
        /\ pg[2].slots[4].x + WIDTH = 800 - MARGIN

====
